---- MODULE Spec2Model ----
(***************************************************************************)
(* State-machine model of the Game component of src/src/index.tsx (the     *)
(* boardSize-parametric version, lines 218-447): the move history, the     *)
(* cursor stepNumber into it, the turn flag xIsNext, and the two event     *)
(* handlers handleClick and jumpToStateInMoveHistory.  Every handler runs  *)
(* to completion before the next event is dispatched, so one event is one  *)
(* action.                                                                 *)
(*                                                                         *)
(* Encoding: a board (Squares) is a function from 0..area-1 to a mark;     *)
(* JavaScript null is Null for a mark and NullPosition for a row/column.   *)
(* history is a TLA+ sequence, so the entry the source calls history[k]    *)
(* is history[k + 1] here; stepNumber keeps the source's 0-based value.    *)
(***************************************************************************)
EXTENDS Integers, Sequences, FiniteSets, TLC

\* <Game boardSize={3} />
boardSize == 3

\* A click goes to an occupied square or to one of the first MaxChoice
\* empty squares of the displayed board (in index order).
MaxChoice == 2

Null == "null"
NullPosition == -1

VARIABLES history, stepNumber, xIsNext, event

vars == <<history, stepNumber, xIsNext>>
allvars == <<history, stepNumber, xIsNext, event>>

calculateBoardArea == boardSize * boardSize

Cells == 0 .. (calculateBoardArea - 1)

----------------------------------------------------------------------------
\* Helpers of Game that read this.state

\* variant: this.state.history.slice() without the cut at the cursor
getHistoryCopyNoTruncate == history

getHistoryCopy == SubSeq(history, 1, stepNumber + 1)

getCurrentState == getHistoryCopy[Len(getHistoryCopy)]

getCurrentBoardLayoutCopy == getCurrentState.squares

\* variant: row and column exchanged
computeCoordinatesSwapped(squareIndex) ==
    [row |-> squareIndex % boardSize, column |-> squareIndex \div boardSize]

computeCoordinates(squareIndex) ==
    [row |-> squareIndex \div boardSize, column |-> squareIndex % boardSize]

\* variant: a slip in the last entry of the table
linesTypo ==
    << <<0, 1, 2>>, <<3, 4, 5>>, <<6, 7, 8>>,
       <<0, 3, 6>>, <<1, 4, 7>>, <<2, 5, 8>>,
       <<0, 4, 8>>, <<2, 4, 7>> >>

lines ==
    << <<0, 1, 2>>, <<3, 4, 5>>, <<6, 7, 8>>,
       <<0, 3, 6>>, <<1, 4, 7>>, <<2, 5, 8>>,
       <<0, 4, 8>>, <<2, 4, 6>> >>

\* squares[k] in JavaScript: undefined (falsy, equal to nothing set) when k
\* is outside the array.
Sq(squares, k) == IF k \in DOMAIN squares THEN squares[k] ELSE Null

lineMatches(squares, l) ==
    /\ Sq(squares, l[1]) # Null
    /\ Sq(squares, l[1]) = Sq(squares, l[2])
    /\ Sq(squares, l[1]) = Sq(squares, l[3])

RECURSIVE winnerFrom(_, _)
winnerFrom(squares, n) ==
    IF n > Len(lines) THEN Null
    ELSE IF lineMatches(squares, lines[n]) THEN Sq(squares, lines[n][1])
    ELSE winnerFrom(squares, n + 1)

\* the loop of calculateWinner, on an arbitrary board
winnerOf(squares) == winnerFrom(squares, 1)

calculateWinner == winnerOf(getCurrentState.squares)

\* variant: the draw test compares with the last index, not the area
reportGameStatusOffByOne ==
    IF calculateWinner # Null THEN <<"Winner: ", calculateWinner>>
    ELSE IF stepNumber = calculateBoardArea - 1 THEN <<"Draw">>
    ELSE <<"Next player: ", IF xIsNext THEN "X" ELSE "O">>

\* variant: the full board is tested before the winner
reportGameStatusDrawFirst ==
    IF stepNumber = calculateBoardArea THEN <<"Draw">>
    ELSE IF calculateWinner # Null THEN <<"Winner: ", calculateWinner>>
    ELSE <<"Next player: ", IF xIsNext THEN "X" ELSE "O">>

reportGameStatus ==
    IF calculateWinner # Null THEN <<"Winner: ", calculateWinner>>
    ELSE IF stepNumber = calculateBoardArea THEN <<"Draw">>
    ELSE <<"Next player: ", IF xIsNext THEN "X" ELSE "O">>

\* the player label renderDescription shows next to move number move
moveLabel(move) == IF move % 2 = 0 THEN "O" ELSE "X"

----------------------------------------------------------------------------
\* variant: the initial entry carries coordinates (0, 0) instead of null
InitZeroPosition ==
    /\ history = << [squares |-> [k \in Cells |-> Null],
                     movePosition |-> [row |-> 0, column |-> 0]] >>
    /\ stepNumber = 0
    /\ xIsNext = TRUE
    /\ event = [op |-> "constructor", arg |-> 0, len |-> 1]

\* Game.constructor
Init ==
    /\ history = << [squares |-> [k \in Cells |-> Null],
                     movePosition |-> [row |-> NullPosition,
                                       column |-> NullPosition]] >>
    /\ stepNumber = 0
    /\ xIsNext = TRUE
    /\ event = [op |-> "constructor", arg |-> 0, len |-> 1]

\* variant: stepNumber taken from the concatenated history
updateStateNewLength(hist, squares, i) ==
    /\ history' = hist \o << [squares |-> squares,
                              movePosition |-> computeCoordinates(i)] >>
    /\ stepNumber' = Len(hist) + 1
    /\ xIsNext' = ~xIsNext

updateState(hist, squares, i) ==
    /\ history' = hist \o << [squares |-> squares,
                              movePosition |-> computeCoordinates(i)] >>
    /\ stepNumber' = Len(hist)
    /\ xIsNext' = ~xIsNext

\* variant: the mark does not depend on the turn
fillSquareAndUpdateHistoryAlwaysX(i) ==
    LET hist == getHistoryCopy
        squares == [getCurrentBoardLayoutCopy EXCEPT ![i] = "X"]
    IN  updateState(hist, squares, i)

\* variant: squares is the current entry's array itself, not a slice() of it
fillSquareAndUpdateHistoryNoCopy(i) ==
    LET squares == [getCurrentState.squares EXCEPT
                        ![i] = IF xIsNext THEN "X" ELSE "O"]
        hist == [getHistoryCopy EXCEPT ![stepNumber + 1].squares = squares]
    IN  updateState(hist, squares, i)

fillSquareAndUpdateHistory(i) ==
    LET hist == getHistoryCopy
        squares == [getCurrentBoardLayoutCopy EXCEPT
                        ![i] = IF xIsNext THEN "X" ELSE "O"]
    IN  updateState(hist, squares, i)

\* variant: no check of the clicked square
handleClickNoOccupiedCheck(i) ==
    IF calculateWinner # Null
    THEN UNCHANGED vars
    ELSE fillSquareAndUpdateHistory(i)

\* variant: no check for a winner
handleClickNoWinnerCheck(i) ==
    LET current == getCurrentState
    IN  IF Sq(current.squares, i) # Null
        THEN UNCHANGED vars
        ELSE fillSquareAndUpdateHistory(i)

handleClick(i) ==
    LET current == getCurrentState
    IN  IF calculateWinner # Null \/ Sq(current.squares, i) # Null
        THEN UNCHANGED vars
        ELSE fillSquareAndUpdateHistory(i)

\* variant: the turn flag has the opposite parity
jumpWrongParity(step) ==
    /\ stepNumber' = step
    /\ xIsNext' = ((step % 2) = 1)
    /\ UNCHANGED history

\* variant: the turn flag is not recomputed
jumpKeepsTurn(step) ==
    /\ stepNumber' = step
    /\ UNCHANGED <<history, xIsNext>>

\* variant: the history is cut at the step jumped to
jumpTruncates(step) ==
    /\ stepNumber' = step
    /\ xIsNext' = ((step % 2) = 0)
    /\ history' = SubSeq(history, 1, step + 1)

jumpToStateInMoveHistory(step) ==
    /\ stepNumber' = step
    /\ xIsNext' = ((step % 2) = 0)
    /\ UNCHANGED history

----------------------------------------------------------------------------
\* Events the rendered page can dispatch

\* number of empty squares of the board before index i
emptyBefore(squares, i) ==
    Cardinality({k \in Cells : k < i /\ squares[k] = Null})

\* the squares a click is drawn from
ClickInputs ==
    LET shown == history[stepNumber + 1].squares
    IN  {i \in Cells : shown[i] # Null \/ emptyBefore(shown, i) < MaxChoice}

\* onClick of a Square of the Board rendered from history[stepNumber]
Click ==
    \E i \in ClickInputs :
        /\ handleClick(i)
        /\ event' = [op |-> "handleClick", arg |-> i, len |-> Len(history)]

\* onClick of one of the move-list buttons, one per history entry
Jump ==
    \E step \in 0 .. (Len(history) - 1) :
        /\ jumpToStateInMoveHistory(step)
        /\ event' = [op |-> "jumpToStateInMoveHistory", arg |-> step,
                     len |-> Len(history)]

Next == Click \/ Jump

Spec == Init /\ [][Next]_allvars

----------------------------------------------------------------------------
\* calculateWinner as a function of the board: the current board is drawn
\* from all boards over {X, O, null} and calculateWinner is applied to it.

InitBoards ==
    /\ \E b \in [Cells -> {"X", "O", Null}] :
          history = << [squares |-> b,
                        movePosition |-> [row |-> NullPosition,
                                          column |-> NullPosition]] >>
    /\ stepNumber = 0
    /\ xIsNext = TRUE
    /\ event = [op |-> "constructor", arg |-> 0, len |-> 1]

ApplyCalculateWinner ==
    /\ event.op = "constructor"
    /\ event' = [op |-> "calculateWinner", arg |-> 0, len |-> Len(history),
                 result |-> calculateWinner]
    /\ UNCHANGED vars

NextWinner == ApplyCalculateWinner

SpecWinner == InitBoards /\ [][NextWinner]_allvars

----------------------------------------------------------------------------
\* The game played on the squares of the scenario 0, 4, 1, 5, 2: clicks go
\* to these squares in any order, jumps to any entry of the history.

ScriptCells == {0, 4, 1, 5, 2}

ClickScript ==
    \E i \in ScriptCells :
        /\ handleClick(i)
        /\ event' = [op |-> "handleClick", arg |-> i, len |-> Len(history)]

NextScript == ClickScript \/ Jump

SpecScript == Init /\ [][NextScript]_allvars

----------------------------------------------------------------------------
\* Vocabulary of the properties.  They read the state directly, not through
\* the helpers of Game.

Shown == history[stepNumber + 1]

Count(squares, m) == Cardinality({k \in DOMAIN squares : squares[k] = m})

IsClick(e) == e.op = "handleClick"
IsJump(e) == e.op = "jumpToStateInMoveHistory"

\* the event taken in this step is a click that handleClick must accept
AcceptedClick ==
    /\ IsClick(event')
    /\ winnerOf(Shown.squares) = Null
    /\ Shown.squares[event'.arg] = Null

\* the last event was an accepted click made after rewinding
ReplayedAfterRewind == IsClick(event) /\ event.len > Len(history)

FrameUnchanged ==
    /\ history' = history
    /\ stepNumber' = stepNumber
    /\ xIsNext' = xIsNext

\* C1: the stored turn flag equals the parity of the cursor
C1_TurnParity == xIsNext = (stepNumber % 2 = 0)

C1_Witness ==
    /\ IsJump(event)
    /\ stepNumber % 2 = 1
    /\ stepNumber < Len(history) - 1

\* C2: the cursor is a valid index into history
C2_CursorInRange == 0 <= stepNumber /\ stepNumber < Len(history)

C2_Witness == IsJump(event) /\ stepNumber = 0 /\ Len(history) = calculateBoardArea + 1

\* C3: a click on a square that is already marked on the current board
\* changes neither history nor stepNumber nor xIsNext
C3_OccupiedClickNoOp ==
    [][(IsClick(event') /\ Shown.squares[event'.arg] # Null)
          => FrameUnchanged]_allvars

C3_Witness ==
    /\ IsClick(event)
    /\ Shown.squares[event.arg] # Null
    /\ Shown.movePosition # computeCoordinates(event.arg)
    /\ winnerOf(Shown.squares) = Null
    /\ stepNumber < calculateBoardArea

\* C4: while the status is Winner or Draw, a click on any square changes
\* neither history nor stepNumber nor xIsNext
C4_TerminalClickNoOp ==
    [][(IsClick(event') /\ reportGameStatus[1] \in {"Winner: ", "Draw"})
          => FrameUnchanged]_allvars

C4_Witness ==
    /\ IsClick(event)
    /\ reportGameStatus[1] = "Winner: "
    /\ Shown.squares[event.arg] = Null

\* C5: an accepted click with the cursor at c yields old history[0..c]
\* followed by exactly one new entry, the cursor on that entry, and the new
\* board equal to the old current board except for X (c even) or O (c odd)
\* at the clicked square
C5_AcceptedClickEffect ==
    [][AcceptedClick =>
          /\ Len(history') = stepNumber + 2
          /\ SubSeq(history', 1, stepNumber + 1)
                = SubSeq(history, 1, stepNumber + 1)
          /\ stepNumber' = stepNumber + 1
          /\ stepNumber' = Len(history') - 1
          /\ history'[stepNumber + 2].squares
                = [Shown.squares EXCEPT
                     ![event'.arg] = IF stepNumber % 2 = 0 THEN "X" ELSE "O"]
      ]_allvars

C5_Witness == ReplayedAfterRewind /\ stepNumber % 2 = 0

\* C6 as stated: every accepted click leaves history one entry longer than
\* it was before the click
C6_LengthPlusOne ==
    [][AcceptedClick => Len(history') = Len(history) + 1]_allvars

\* C6 amended: an accepted click with the cursor at c leaves history with
\* c + 2 entries, which is one more than before exactly when the cursor was
\* on the last entry
C6_LengthFromCursor ==
    [][AcceptedClick =>
          /\ Len(history') = stepNumber + 2
          /\ (Len(history') = Len(history) + 1)
                <=> (stepNumber = Len(history) - 1)
      ]_allvars

C6_Witness == IsClick(event) /\ event.len = Len(history) + 2

\* C7: a jump sets the cursor to the step and the turn flag to its parity
\* and leaves history as it was
C7_JumpEffect ==
    [][IsJump(event') =>
          /\ stepNumber' = event'.arg
          /\ xIsNext' = (event'.arg % 2 = 0)
          /\ history' = history
      ]_allvars

C7_Witness ==
    /\ IsJump(event)
    /\ stepNumber = event.arg
    /\ stepNumber + 2 < Len(history)
    /\ winnerOf(history[Len(history)].squares) # Null

\* C8: no event changes a history entry at an index up to the cursor
C8_SnapshotsImmutable ==
    [][\A k \in 1 .. (stepNumber + 1) :
          k \in DOMAIN history' /\ history'[k] = history[k]]_allvars

C8_Witness == ReplayedAfterRewind /\ stepNumber >= 3

\* C9: on every board of history the X marks outnumber the O marks by 0 or 1
C9_MarkBalance ==
    \A k \in DOMAIN history :
        Count(history[k].squares, "X") - Count(history[k].squares, "O")
            \in {0, 1}

C9_Witness ==
    /\ ReplayedAfterRewind
    /\ Count(Shown.squares, "X") = 3
    /\ Count(Shown.squares, "O") = 3

\* C10: the first entry of history is the empty board with null coordinates
C10_FirstEntryEmpty ==
    /\ \A k \in Cells : history[1].squares[k] = Null
    /\ DOMAIN history[1].squares = Cells
    /\ history[1].movePosition = [row |-> NullPosition, column |-> NullPosition]

C10_Witness == ReplayedAfterRewind /\ Len(history) = 2 /\ event.len > 3

\* C11: after jumpToStateInMoveHistory(0), from whatever state, the status
\* reads 'Next player: X'
C11_JumpToStartStatus ==
    (IsJump(event) /\ event.arg = 0)
        => reportGameStatus = <<"Next player: ", "X">>

C11_Witness ==
    /\ IsJump(event)
    /\ event.arg = 0
    /\ stepNumber = 0
    /\ winnerOf(history[Len(history)].squares) # Null

\* C12: the status is 'Draw' exactly when the current board has no empty
\* square and no winning line
C12_DrawIffFullNoLine ==
    (reportGameStatus = <<"Draw">>)
        <=> /\ Count(Shown.squares, Null) = 0
            /\ winnerOf(Shown.squares) = Null

C12_Witness ==
    /\ reportGameStatus = <<"Draw">>
    /\ IsClick(event)
    /\ event.len = calculateBoardArea
    /\ Count(Shown.squares, Null) = 0

\* the 8 canonical lines of the 3x3 board from its geometry: rows, then
\* columns, then the diagonal and the anti-diagonal
CanonicalLine(n) ==
    IF n <= 3 THEN {3 * (n - 1) + c : c \in 0 .. 2}
    ELSE IF n <= 6 THEN {(n - 4) + 3 * r : r \in 0 .. 2}
    ELSE IF n = 7 THEN {4 * r : r \in 0 .. 2}
    ELSE {2 + 2 * r : r \in 0 .. 2}

LineMark(squares, n) ==
    IF \E m \in {"X", "O"} : \A c \in CanonicalLine(n) : squares[c] = m
    THEN squares[CHOOSE c \in CanonicalLine(n) : TRUE]
    ELSE Null

FirstLineMark(squares) ==
    LET matching == {n \in 1 .. 8 : LineMark(squares, n) # Null}
    IN  IF matching = {} THEN Null
        ELSE LineMark(squares, CHOOSE n \in matching :
                                   \A o \in matching : n <= o)

\* C13: on every 3x3 board calculateWinner returns the mark of the first
\* canonical line whose three squares are equal and marked, null when there
\* is none, and null on the empty board
C13_WinnerIsFirstLine ==
    (event.op = "calculateWinner") =>
        /\ event.result = FirstLineMark(Shown.squares)
        /\ (Count(Shown.squares, Null) = calculateBoardArea
                => event.result = Null)

C13_Witness ==
    /\ event.op = "calculateWinner"
    /\ LineMark(Shown.squares, 2) = "O"
    /\ LineMark(Shown.squares, 3) = "X"
    /\ LineMark(Shown.squares, 1) = Null
    /\ event.result = "O"

\* the scenario: clicks at 0, 4, 1, 5, 2 in this order
Script == <<0, 4, 1, 5, 2>>

\* the board after the first k clicks of the scenario: X, O, X, O, X
ScriptBoard(k) ==
    [c \in Cells |->
        IF \E j \in 1 .. k : Script[j] = c
        THEN IF (CHOOSE j \in 1 .. k : Script[j] = c) % 2 = 1
             THEN "X" ELSE "O"
        ELSE Null]

\* the first k clicks of the scenario have been played and nothing else
Played(k) ==
    /\ Len(history) = k + 1
    /\ stepNumber = k
    /\ \A j \in 0 .. k : history[j + 1].squares = ScriptBoard(j)

\* C14: from the initial state the clicks 0, 4, 1, 5, 2 place X, O, X, O, X,
\* leave 6 entries and stepNumber 5, make the status 'Winner: X' and record
\* (row 0, column 2) on the last entry
C14_TopRowScenario ==
    /\ Played(0)
    /\ [][\A k \in 1 .. Len(Script) :
             (Played(k - 1) /\ IsClick(event') /\ event'.arg = Script[k])
                => Played(k)']_allvars
    /\ [](Played(Len(Script)) =>
             /\ Len(history) = 6
             /\ stepNumber = 5
             /\ reportGameStatus = <<"Winner: ", "X">>
             /\ history[6].movePosition = [row |-> 0, column |-> 2])

C14_Witness ==
    /\ Played(Len(Script))
    /\ IsClick(event)
    /\ event.arg = 2
    /\ event.len = 5

\* the squares on which entry k of history (k >= 1, 0-based) differs from
\* the entry before it
Filled(k) ==
    {c \in Cells : history[k + 1].squares[c] # history[k].squares[c]}

\* C15: every entry k >= 1 carries row and column in [0, boardSize) with
\* row * boardSize + column equal to the index of the square filled to
\* create the entry
C15_CoordinatesOfMove ==
    \A k \in 1 .. (Len(history) - 1) :
        LET pos == history[k + 1].movePosition
        IN  /\ pos.row \in 0 .. (boardSize - 1)
            /\ pos.column \in 0 .. (boardSize - 1)
            /\ Filled(k) = {pos.row * boardSize + pos.column}

C15_Witness ==
    /\ ReplayedAfterRewind
    /\ Shown.movePosition = [row |-> 2, column |-> 1]
    /\ Len(history) >= 4

\* the last event was a jump to an entry before the last one of a game
\* whose last entry has a winning line or a full board
JumpedBackFromEnd ==
    /\ IsJump(event)
    /\ stepNumber < Len(history) - 1
    /\ \/ winnerOf(history[Len(history)].squares) # Null
       \/ Len(history) = calculateBoardArea + 1

\* C16: from a state whose status is Winner or Draw a jump to an earlier
\* step gives the status 'Next player: ...', and a click on an empty square
\* made there is accepted
C16_ExploreAfterEnd ==
    /\ [][(/\ reportGameStatus[1] \in {"Winner: ", "Draw"}
           /\ IsJump(event')
           /\ event'.arg < stepNumber)
             => /\ reportGameStatus'[1] = "Next player: "
                /\ JumpedBackFromEnd']_allvars
    /\ [][(/\ JumpedBackFromEnd
           /\ IsClick(event')
           /\ Shown.squares[event'.arg] = Null)
             => /\ stepNumber' = stepNumber + 1
                /\ Len(history') = stepNumber + 2
                /\ history'[stepNumber + 2].squares[event'.arg] # Null
          ]_allvars

C16_Witness ==
    /\ ReplayedAfterRewind
    /\ event.len = calculateBoardArea + 1
    /\ stepNumber >= 2

\* C17: when the move that fills the last empty square completes a line,
\* the status is 'Winner: <mark>' and not 'Draw'
C17_WinnerBeforeDraw ==
    (stepNumber = calculateBoardArea /\ winnerOf(Shown.squares) # Null)
        => reportGameStatus = <<"Winner: ", winnerOf(Shown.squares)>>

C17_Witness ==
    /\ IsClick(event)
    /\ event.len = calculateBoardArea
    /\ stepNumber = calculateBoardArea
    /\ winnerOf(Shown.squares) # Null
    /\ winnerOf(history[calculateBoardArea].squares) = Null

\* C18: entry k of history has exactly k marked squares; so stepNumber is
\* the board area exactly when the current board is full, and history has
\* at most area + 1 entries
C18_MarksPerEntry ==
    /\ \A k \in 0 .. (Len(history) - 1) :
          Count(history[k + 1].squares, Null) = calculateBoardArea - k
    /\ (stepNumber = calculateBoardArea)
          <=> (\A c \in Cells : Shown.squares[c] # Null)
    /\ Len(history) <= calculateBoardArea + 1

C18_Witness ==
    /\ IsClick(event)
    /\ event.len = calculateBoardArea
    /\ Len(history) = calculateBoardArea + 1
    /\ winnerOf(Shown.squares) = Null

\* C19: no entry of history other than the last one has a winning line
C19_OnlyLastEntryWins ==
    \A k \in 1 .. (Len(history) - 1) : winnerOf(history[k].squares) = Null

C19_Witness ==
    /\ ReplayedAfterRewind
    /\ winnerOf(history[Len(history)].squares) = "O"

\* C20: entry k >= 1 differs from entry k - 1 in exactly one square, empty
\* before and holding afterwards the mark of the label the move list shows
\* for move k (X for odd k, O for even k)
C20_OneMarkPerMove ==
    \A k \in 1 .. (Len(history) - 1) :
        /\ Cardinality(Filled(k)) = 1
        /\ \A c \in Filled(k) :
              /\ history[k].squares[c] = Null
              /\ history[k + 1].squares[c] = moveLabel(k)
              /\ history[k + 1].squares[c] = (IF k % 2 = 1 THEN "X" ELSE "O")

C20_Witness ==
    /\ ReplayedAfterRewind
    /\ stepNumber % 2 = 0
    /\ Len(history) >= 5
    /\ event.len - Len(history) = 1

\* the board has a canonical line filled with mark m
HasLine(squares, m) == \E n \in 1 .. 8 : LineMark(squares, n) = m

\* C21: no board of history has a completed line for both X and O, and when
\* the status is 'Winner: m' with the cursor at c, m is the mark of the
\* player who made move c (X for odd c, O for even c)
C21_WinnerMadeLastMove ==
    /\ \A k \in DOMAIN history :
          ~(HasLine(history[k].squares, "X") /\ HasLine(history[k].squares, "O"))
    /\ (reportGameStatus[1] = "Winner: ")
          => /\ stepNumber >= 1
             /\ reportGameStatus[2] = (IF stepNumber % 2 = 1 THEN "X" ELSE "O")
             /\ \A c \in Filled(stepNumber) :
                   Shown.squares[c] = reportGameStatus[2]

C21_Witness ==
    /\ IsClick(event)
    /\ event.len = Len(history) - 1
    /\ stepNumber = 8
    /\ reportGameStatus = <<"Winner: ", "O">>

====
